---- MODULE Spec2Model ----
(***************************************************************************)
(* Model of src/extension/core/bg/autosave.js: the auto-save coordinator   *)
(* of SingleFileZ.  The state is the two module-level tables               *)
(* (pendingMessages, replacedTabIds) together with the saveContent         *)
(* invocations that are suspended at one of their awaits.  Every handler   *)
(* is one action that runs up to its first suspension point; every        *)
(* resolution of an awaited collaborator is one action that runs the       *)
(* resumed saveContent up to its next await (or through its finally block  *)
(* and the continuation of the handler that awaits it).                    *)
(*                                                                         *)
(* JS values are modelled as records: `undefined` tab is NoTab, a missing  *)
(* table entry is Absent, {removed: true} is Removed.  A tab carries its   *)
(* id and index; url, pinned and incognito do not influence the            *)
(* coordination and are left out.  The payload of a message (content,      *)
(* frames, ...) is represented by the message's unique id.                 *)
(*                                                                         *)
(* An input that the code reads exactly once is chosen by the action that  *)
(* reads it: message.autoSaveUnload (line 63), message.taskId (line 203)   *)
(* and the fields of the resolved options (lines 176, 182, 205).  The      *)
(* choice is recorded in ev, the record of the last step.                  *)
(***************************************************************************)
EXTENDS Integers, Sequences, FiniteSets, TLC

\* Number of distinct tab ids the environment uses.
MaxTab == 2
\* Number of ".save" messages delivered in one behaviour.
MaxMsgs == 2
\* Number of saveContent invocations suspended at the same time.
MaxSaves == 1
\* The same number in the behaviours that let invocations overlap.
MaxOverlap == 2

TabIds == 1..MaxTab
\* The tab with id t sits at position t - 1 of its window.
IndexOf(tabId) == tabId - 1
MsgIds == 1..MaxMsgs

\* JS `undefined` for a tab id (tab ids are positive, so 0 is falsy as in JS).
Undefined == 0

NoTab == [id |-> Undefined, index |-> Undefined]
Tab(id, index) == [id |-> id, index |-> index]

\* pendingMessages[tabId] is undefined
Absent == [kind |-> "absent"]
\* pendingMessages[tabId] is { removed: true }
Removed == [kind |-> "removed"]

\* The ".save" messages a content script can send.  message.tab is unset
\* until onMessage assigns it (line 57).  autoSaveUnload and taskId are
\* inputs of the actions that read them.
Messages(id) ==
    {[kind |-> "message", id |-> id, tabId |-> t, tabIndex |-> IndexOf(t),
      autoSaveDiscard |-> d, autoSaveRemove |-> r, tab |-> NoTab] :
        t \in TabIds, d \in BOOLEAN, r \in BOOLEAN}

\* JS truthiness of a table entry, and of the flags read from it.
Truthy(entry) == entry.kind # "absent"
IsRemoved(entry) == entry.kind = "removed"
IsMessage(entry) == entry.kind = "message"
HasAutoSaveRemove(entry) == IsMessage(entry) /\ entry.autoSaveRemove
\* message.tab of an entry ({removed: true} has no tab property)
TabOf(entry) == IF IsMessage(entry) THEN entry.tab ELSE NoTab

NoSave == [pc |-> "none"]
NoWaiter == [h |-> "none", id |-> Undefined]
Waiter(h, id) == [h |-> h, id |-> id]

VARIABLES
    pendingMessages,   \* const pendingMessages = {}  (line 34)
    replacedTabIds,    \* const replacedTabIds = {}   (line 35)
    saves,             \* saveContent invocations suspended at an await
    nmsg,              \* number of ".save" messages delivered so far
    flushCount,        \* per message id: saveContent invocations that received it
    ev,                \* the last step: handler, inputs, calls made, save finished
    inFlightLimit      \* how many invocations the environment lets be suspended at once

vars == <<pendingMessages, replacedTabIds, saves, nmsg, flushCount, ev, inFlightLimit>>

Call(message, tab) == [msg |-> message, tab |-> tab]

\* The record of one step: the handler or saveContent stage that ran (op),
\* its arguments (id, id2, msg, sender; for a step of saveContent id is
\* tab.id and id2 the id of its message), the inputs it read (unload, and for
\* a settled save fin), the kind of entry it found under id (prior), the ids
\* whose entry it changed (changed), the saveContent invocations it made
\* (calls), how a save settled (outcome) and the tab id it passed to
\* tabs.remove (closed).
Event(op, id, id2, msg, sender, unload, prior, changed, calls, fin, outcome, closed) ==
    [op |-> op, id |-> id, id2 |-> id2, msg |-> msg, sender |-> sender,
     unload |-> unload, prior |-> prior, changed |-> changed, calls |-> calls,
     fin |-> fin, outcome |-> outcome, closed |-> closed]

Changed(pm, pm2) == {t \in TabIds : pm[t] # pm2[t]}

\* flushCount after the saveContent invocations `calls` of one step
Counted(fc, calls) ==
    [i \in MsgIds |->
        fc[i] + Cardinality({k \in 1..Len(calls) :
                                IsMessage(calls[k].msg) /\ calls[k].msg.id = i})]

(***************************************************************************)
(* saveContent(message, tab), lines 148-150: `tab.id` throws a TypeError   *)
(* when tab is undefined (the promise is rejected and nothing else         *)
(* happens); otherwise the invocation suspends at config.getOptions.       *)
(* pageData, skipped and url are the locals pageData (line 172), skipped   *)
(* (line 175) and pageData.url (line 198), FALSE while undefined.          *)
(***************************************************************************)
SaveContent(message, tab, waiter) ==
    IF tab = NoTab
    THEN {}
    ELSE {[msg |-> message, tab |-> tab, pc |-> "getOptions",
           saveToGDrive |-> FALSE, pageData |-> FALSE, skipped |-> FALSE,
           url |-> FALSE, trace |-> <<>>, waiter |-> waiter]}

Init ==
    /\ pendingMessages = [t \in TabIds |-> Absent]
    /\ replacedTabIds = [t \in TabIds |-> Undefined]
    /\ saves = {}
    /\ nmsg = 0
    /\ inFlightLimit = MaxSaves
    /\ flushCount = [i \in MsgIds |-> 0]
    /\ ev = Event("init", Undefined, Undefined, Absent, NoTab, FALSE, "absent", {}, <<>>,
                  NoSave, "none", Undefined)

(***************************************************************************)
(* Registry primitives used by the handlers.                               *)
(***************************************************************************)
\* delete pendingMessages[id]
ClearIntent(pm, id) == [pm EXCEPT ![id] = Absent]

\* Variant of StoreIntent: an entry that is already there is kept.
StoreIntentKeepsEarlier(pm, message, senderTab) ==
    IF pm[senderTab.id].kind # "absent" THEN pm
    ELSE [pm EXCEPT ![senderTab.id] = [message EXCEPT !.tab = senderTab]]

\* message.tab = sender.tab; pendingMessages[sender.tab.id] = message (57-58)
StoreIntent(pm, message, senderTab) ==
    [pm EXCEPT ![senderTab.id] = [message EXCEPT !.tab = senderTab]]

\* line 55
IsDeferred(message) == message.autoSaveDiscard \/ message.autoSaveRemove

\* lines 55-56: the request is registered as a pending intent
RegistersIntent(message, senderTab) == IsDeferred(message) /\ senderTab # NoTab

\* Variant of FlushesClosedMarker: the closed-marker is not required.
FlushesWithoutMarker(pm, message, senderTab) ==
    IsDeferred(message) /\ senderTab = NoTab /\ message.autoSaveRemove

\* Variant of FlushesClosedMarker: message.autoSaveRemove is not consulted.
FlushesMarkerAnyFlag(pm, message, senderTab) ==
    /\ IsDeferred(message)
    /\ senderTab = NoTab
    /\ Truthy(pm[message.tabId])
    /\ IsRemoved(pm[message.tabId])

\* lines 55, 56 (else), 59: no sender tab, a closed-marker under the request's id
FlushesClosedMarker(pm, message, senderTab) ==
    /\ IsDeferred(message)
    /\ senderTab = NoTab
    /\ Truthy(pm[message.tabId])
    /\ IsRemoved(pm[message.tabId])
    /\ message.autoSaveRemove

\* lines 61: the session rebuilt from the request
RebuiltTab(message) == Tab(message.tabId, message.tabIndex)

\* Variant of ClearedForSave: line 68 is missing.
NotClearedForSave(pm, message) == pm

\* line 68: the table when the plain save starts
ClearedForSave(pm, message) == ClearIntent(pm, message.tabId)

(***************************************************************************)
(* What every handler does with its results, up to its first await: the    *)
(* two tables are updated, and saveContent is (call = <<Call(..)>>) or is   *)
(* not (call = <<>>) invoked.  An invocation with an undefined tab throws   *)
(* at line 149 and rejects the handler's promise.                          *)
(*                                                                         *)
(* Interleaving.  Between its first await and its finally block a          *)
(* saveContent invocation reads and writes nothing but its own locals, so  *)
(* a handler that runs between two of those awaits has the same effect as  *)
(* the same handler run before the first of them.  Handlers are therefore  *)
(* scheduled only while every suspended invocation is still at its first   *)
(* await (Quiescent); all orders of handlers relative to each other, to    *)
(* the start of a save and to its finally block are kept.                  *)
(***************************************************************************)
Quiescent == \A s \in saves : s.pc = "getOptions"

Handled(op, id, id2, msg, sender, unload, pm, rt, call, waiter) ==
    LET starts == call # <<>> /\ call[1].tab # NoTab
        throws == call # <<>> /\ call[1].tab = NoTab
    IN
    /\ Quiescent
    /\ starts => Cardinality(saves) < inFlightLimit
    /\ UNCHANGED inFlightLimit
    /\ pendingMessages' = pm
    /\ replacedTabIds' = rt
    /\ saves' = IF starts THEN saves \cup SaveContent(call[1].msg, call[1].tab, waiter)
                ELSE saves
    /\ flushCount' = Counted(flushCount, call)
    /\ nmsg' = IF op = "onMessage" THEN nmsg + 1 ELSE nmsg
    /\ ev' = Event(op, id, id2, msg, sender, unload, pendingMessages[id].kind,
                   Changed(pendingMessages, pm), call, NoSave,
                   IF throws THEN "TypeError" ELSE "none", Undefined)

(***************************************************************************)
(* onMessage, ".save" branch (lines 54-72), up to its first await.         *)
(* senderTab is sender.tab (NoTab when the sender has no tab).  When       *)
(* sender.tab exists, message.tabId and message.tabIndex are the values    *)
(* the same handler returned to that tab for ".init" (line 52).            *)
(* autoSaveUnload is message.autoSaveUnload, read at line 63; after the    *)
(* await of line 61 it is read when that save has settled (Settle).        *)
(***************************************************************************)
OnMessage(message, senderTab, autoSaveUnload) ==
    LET stored == [message EXCEPT !.tab = senderTab]
        id == message.tabId
    IN
    /\ nmsg < MaxMsgs
    /\ IF RegistersIntent(message, senderTab)
       THEN IF autoSaveUnload
            THEN \* lines 57-58, then 63-65 with the object stored at line 58
                 Handled("onMessage", id, Undefined, message, senderTab, TRUE,
                         ClearIntent(StoreIntent(pendingMessages, message, senderTab), id),
                         replacedTabIds, <<Call(stored, senderTab)>>,
                         Waiter("onMessage:65", id))
            ELSE \* lines 57-58
                 Handled("onMessage", id, Undefined, message, senderTab, FALSE,
                         StoreIntent(pendingMessages, message, senderTab),
                         replacedTabIds, <<>>, NoWaiter)
       ELSE IF FlushesClosedMarker(pendingMessages, message, senderTab)
       THEN \* lines 60-61
            /\ ~autoSaveUnload
            /\ Handled("onMessage", id, Undefined, message, senderTab, FALSE,
                       ClearIntent(pendingMessages, id), replacedTabIds,
                       <<Call(message, RebuiltTab(message))>>, Waiter("onMessage:61", id))
       ELSE IF IsDeferred(message)
       THEN IF autoSaveUnload
            THEN \* lines 64-65, sender.tab is undefined
                 Handled("onMessage", id, Undefined, message, senderTab, TRUE,
                         ClearIntent(pendingMessages, id), replacedTabIds,
                         <<Call(message, senderTab)>>, Waiter("onMessage:65", id))
            ELSE \* nothing but line 71
                 Handled("onMessage", id, Undefined, message, senderTab, FALSE,
                         pendingMessages, replacedTabIds, <<>>, NoWaiter)
       ELSE \* lines 68-69
            /\ ~autoSaveUnload
            /\ Handled("onMessage", id, Undefined, message, senderTab, FALSE,
                       ClearedForSave(pendingMessages, message), replacedTabIds,
                       <<Call(message, senderTab)>>, Waiter("onMessage:69", id))

(***************************************************************************)
(* onTabUpdated (lines 75-77)                                              *)
(***************************************************************************)
\* Variant of OnTabUpdated: only a save-request is discarded.
OnTabUpdatedKeepsMarker(tabId) ==
    Handled("onTabUpdated", tabId, Undefined, Absent, NoTab, FALSE,
            IF IsMessage(pendingMessages[tabId])
            THEN ClearIntent(pendingMessages, tabId) ELSE pendingMessages,
            replacedTabIds, <<>>, NoWaiter)

OnTabUpdated(tabId) ==
    Handled("onTabUpdated", tabId, Undefined, Absent, NoTab, FALSE,
            ClearIntent(pendingMessages, tabId), replacedTabIds, <<>>, NoWaiter)

(***************************************************************************)
(* onTabRemoved (lines 79-89)                                              *)
(***************************************************************************)
\* Variant of FlushesOnRemove: the autoSaveRemove flag is not consulted.
FlushesOnRemoveAnyIntent(message) == IsMessage(message)

\* line 82
FlushesOnRemove(message) == HasAutoSaveRemove(message)

\* Variant of OnTabRemoved: line 83 is missing, the flushed entry stays.
OnTabRemovedKeepsEntry(tabId) ==
    LET message == pendingMessages[tabId] IN
    IF Truthy(message)
    THEN IF FlushesOnRemove(message)
         THEN Handled("onTabRemoved", tabId, Undefined, Absent, NoTab, FALSE,
                      pendingMessages, replacedTabIds,
                      <<Call(message, TabOf(message))>>, Waiter("onTabRemoved", tabId))
         ELSE Handled("onTabRemoved", tabId, Undefined, Absent, NoTab, FALSE,
                      pendingMessages, replacedTabIds, <<>>, NoWaiter)
    ELSE Handled("onTabRemoved", tabId, Undefined, Absent, NoTab, FALSE,
                 [pendingMessages EXCEPT ![tabId] = Removed], replacedTabIds,
                 <<>>, NoWaiter)

OnTabRemoved(tabId) ==
    LET message == pendingMessages[tabId] IN
    IF Truthy(message)
    THEN IF FlushesOnRemove(message)
         THEN Handled("onTabRemoved", tabId, Undefined, Absent, NoTab, FALSE,
                      ClearIntent(pendingMessages, tabId), replacedTabIds,
                      <<Call(message, TabOf(message))>>, Waiter("onTabRemoved", tabId))
         ELSE Handled("onTabRemoved", tabId, Undefined, Absent, NoTab, FALSE,
                      pendingMessages, replacedTabIds, <<>>, NoWaiter)
    ELSE Handled("onTabRemoved", tabId, Undefined, Absent, NoTab, FALSE,
                 [pendingMessages EXCEPT ![tabId] = Removed], replacedTabIds,
                 <<>>, NoWaiter)

(***************************************************************************)
(* onTabDiscarded (lines 91-97).  `if (message)` is true of a              *)
(* closed-marker too: it is deleted and saveContent is called with         *)
(* message.tab undefined, which throws.                                    *)
(***************************************************************************)
\* line 93
FlushesOnDiscard(message) == Truthy(message)

\* Variant of OnTabDiscarded: line 94 is missing, the flushed entry stays.
OnTabDiscardedKeepsEntry(tabId) ==
    LET message == pendingMessages[tabId] IN
    IF FlushesOnDiscard(message)
    THEN Handled("onTabDiscarded", tabId, Undefined, Absent, NoTab, FALSE,
                 pendingMessages, replacedTabIds,
                 <<Call(message, TabOf(message))>>, Waiter("onTabDiscarded", tabId))
    ELSE Handled("onTabDiscarded", tabId, Undefined, Absent, NoTab, FALSE,
                 pendingMessages, replacedTabIds, <<>>, NoWaiter)

OnTabDiscarded(tabId) ==
    LET message == pendingMessages[tabId] IN
    IF FlushesOnDiscard(message)
    THEN Handled("onTabDiscarded", tabId, Undefined, Absent, NoTab, FALSE,
                 ClearIntent(pendingMessages, tabId), replacedTabIds,
                 <<Call(message, TabOf(message))>>, Waiter("onTabDiscarded", tabId))
    ELSE Handled("onTabDiscarded", tabId, Undefined, Absent, NoTab, FALSE,
                 pendingMessages, replacedTabIds, <<>>, NoWaiter)

(***************************************************************************)
(* onTabReplaced (lines 99-105)                                            *)
(***************************************************************************)
\* line 100
MovesIntent(pm, addedTabId, removedTabId) ==
    Truthy(pm[removedTabId]) /\ ~Truthy(pm[addedTabId])

\* Variant of MovedIntent: line 102 is missing, the entry is copied.
CopiedIntent(pm, addedTabId, removedTabId) ==
    [pm EXCEPT ![addedTabId] = pm[removedTabId]]

\* lines 101-102
MovedIntent(pm, addedTabId, removedTabId) ==
    ClearIntent([pm EXCEPT ![addedTabId] = pm[removedTabId]], removedTabId)

\* line 103
Redirected(rt, addedTabId, removedTabId) == [rt EXCEPT ![removedTabId] = addedTabId]

OnTabReplaced(addedTabId, removedTabId) ==
    IF MovesIntent(pendingMessages, addedTabId, removedTabId)
    THEN Handled("onTabReplaced", addedTabId, removedTabId, Absent, NoTab, FALSE,
                 MovedIntent(pendingMessages, addedTabId, removedTabId),
                 Redirected(replacedTabIds, addedTabId, removedTabId), <<>>, NoWaiter)
    ELSE Handled("onTabReplaced", addedTabId, removedTabId, Absent, NoTab, FALSE,
                 pendingMessages, replacedTabIds, <<>>, NoWaiter)

(***************************************************************************)
(* saveContent (lines 148-215) after its first await.  trace lists the     *)
(* collaborators the invocation has called so far, in order.  The inputs   *)
(* read by the finally block and by the handler that resumes afterwards    *)
(* are passed as `inp`: message.taskId (line 203), options.autoSaveDiscard *)
(* and options.autoClose (line 205), message.autoSaveUnload (line 63).     *)
(***************************************************************************)
\* The awaiting handler resumes only when saveContent returned normally;
\* of all the handlers only onMessage has code after its await (line 61),
\* and that code starts by reading message.autoSaveUnload (line 63).
ReadsUnload(s, outcome) ==
    s.waiter.h = "onMessage:61" /\ outcome \in {"aborted", "success", "skipped"}

\* The inputs read when s settles with `outcome`; `ran` tells whether the
\* finally block runs.  An input that is not read is left at its default:
\* line 205 is not evaluated when message.taskId is truthy, options.autoClose
\* is not evaluated when options.autoSaveDiscard is falsy.
FinalInputs(s, outcome, ran) ==
    {inp \in [taskId : {0, 1}, autoSaveDiscard : BOOLEAN, autoClose : BOOLEAN,
              autoSaveUnload : BOOLEAN] :
        /\ (~ran => inp.taskId = 0)
        /\ (~ran \/ inp.taskId # 0 => ~inp.autoSaveDiscard)
        /\ (~inp.autoSaveDiscard => ~inp.autoClose)
        /\ (~ReadsUnload(s, outcome) => ~inp.autoSaveUnload)}

Resumed(s, pc, called) == [s EXCEPT !.pc = pc, !.trace = s.trace \o called]

\* line 203 false, line 205 true
ClosesTab(inp) == inp.taskId = 0 /\ inp.autoSaveDiscard /\ inp.autoClose

\* line 206: replacedTabIds[tabId] || tabId
TabToClose(rt, tabId) == IF rt[tabId] # Undefined THEN rt[tabId] ELSE tabId

\* line 209
ReleasesUrl(s) == s.pageData /\ s.url

\* Variant of Cleanup: ui.onEnd is called before the object URL is revoked.
CleanupEndsEarly(s, inp) ==
    (IF inp.taskId # 0 THEN <<"business.onSaveEnd">>
     ELSE IF inp.autoSaveDiscard /\ inp.autoClose THEN <<"tabs.remove">>
     ELSE <<>>)
    \o <<"ui.onEnd">>
    \o (IF s.pageData /\ s.url THEN <<"URL.revokeObjectURL">> ELSE <<>>)

\* The collaborators the finally block calls, in order (lines 203-212).
Cleanup(s, inp) ==
    (IF inp.taskId # 0 THEN <<"business.onSaveEnd">>
     ELSE IF ClosesTab(inp) THEN <<"tabs.remove">>
     ELSE <<>>)
    \o (IF ReleasesUrl(s) THEN <<"URL.revokeObjectURL">> ELSE <<>>)
    \o <<"ui.onEnd">>

\* line 207, inside the branch of line 205
AfterCleanup(rt, s, inp) ==
    IF ClosesTab(inp) THEN [rt EXCEPT ![s.tab.id] = Undefined] ELSE rt

(***************************************************************************)
(* The suspended invocation s settles, its locals being `now`: it leaves   *)
(* `saves`, and the handler awaiting it continues.  After line 61 that is  *)
(* lines 63-66: delete the entry and call saveContent(message, sender.tab) *)
(* with sender.tab undefined.                                              *)
(***************************************************************************)
Settled(s, now, outcome, ran, inp) ==
    LET cleanup == IF ran THEN Cleanup(now, inp) ELSE <<>>
        closes == ran /\ ClosesTab(inp)
        unloads == ReadsUnload(s, outcome) /\ inp.autoSaveUnload
        fin == [pc |-> s.pc, trace |-> now.trace \o cleanup, cleanup |-> cleanup,
                skipped |-> now.skipped, url |-> now.url, waiter |-> s.waiter,
                taskId |-> inp.taskId, autoSaveDiscard |-> inp.autoSaveDiscard,
                autoClose |-> inp.autoClose, closes |-> closes]
        calls == IF unloads THEN <<Call(s.msg, NoTab)>> ELSE <<>>
    IN
    /\ saves' = saves \ {s}
    /\ replacedTabIds' = IF ran THEN AfterCleanup(replacedTabIds, s, inp)
                         ELSE replacedTabIds
    /\ pendingMessages' = IF unloads THEN ClearIntent(pendingMessages, s.msg.tabId)
                          ELSE pendingMessages
    /\ flushCount' = Counted(flushCount, calls)
    /\ UNCHANGED <<nmsg, inFlightLimit>>
    /\ ev' = Event("saveContent", s.tab.id, s.msg.id, Absent, NoTab, unloads,
                   pendingMessages[s.msg.tabId].kind,
                   IF unloads THEN Changed(pendingMessages,
                                           ClearIntent(pendingMessages, s.msg.tabId))
                   ELSE {},
                   calls, fin, outcome,
                   IF closes THEN TabToClose(replacedTabIds, s.tab.id) ELSE Undefined)

\* Variant of Settle: the cleanup follows the try block instead of being its
\* finally clause, so a thrown failure skips it.
SettleWithoutFinally(s, now, outcome, ran) ==
    \E inp \in FinalInputs(s, outcome, ran /\ outcome # "failed") :
        Settled(s, now, outcome, ran /\ outcome # "failed", inp)

Settle(s, now, outcome, ran) ==
    \E inp \in FinalInputs(s, outcome, ran) : Settled(s, now, outcome, ran, inp)

\* A step of saveContent that suspends again at the next await.
Suspend(s, next) ==
    /\ saves' = (saves \ {s}) \cup {next}
    /\ UNCHANGED <<pendingMessages, replacedTabIds, nmsg, flushCount, inFlightLimit>>
    /\ ev' = Event("saveContent", s.tab.id, s.msg.id, Absent, NoTab, FALSE,
                   "absent", {}, <<>>, NoSave, "none", Undefined)

\* lines 181-185: the first collaborator of the not-skipped branch
EntersPipeline(s, includeInfobar) ==
    IF includeInfobar
    THEN Resumed(s, "includeScript", <<"infobar.includeScript">>)
    ELSE Resumed(s, "process", <<"compression.process">>)

\* Variant of GetOptionsResolved: the test of line 151 guards lines 152-201
\* only, the cleanup runs for null options too.
GetOptionsNullCleansUp(s, result) ==
    /\ s.pc = "getOptions"
    /\ CASE result = "null" -> Settle(s, s, "aborted", TRUE)
         [] result = "throws" -> Settle(s, s, "rejected", FALSE)
         [] result = "options" ->
              Suspend(s, Resumed(s, "getPageData", <<"ui.onStart", "getPageData">>))

\* line 150 resolves: options is null (line 151 false), or an object
\* (lines 152-174), or config.getOptions rejects (outside the try block).
GetOptionsResolved(s, result) ==
    /\ s.pc = "getOptions"
    /\ CASE result = "null" -> Settle(s, s, "aborted", FALSE)
         [] result = "throws" -> Settle(s, s, "rejected", FALSE)
         [] result = "options" ->
              Suspend(s, Resumed(s, "getPageData", <<"ui.onStart", "getPageData">>))

\* line 174 resolves (ok) or throws; lines 176-177
GetPageDataResolved(s, ok, saveToGDrive, includeInfobar) ==
    /\ s.pc = "getPageData"
    /\ IF ~ok
       THEN Settle(s, s, "failed", TRUE)
       ELSE LET s1 == [s EXCEPT !.pageData = TRUE, !.saveToGDrive = saveToGDrive] IN
            IF ~saveToGDrive
            THEN Suspend(s, Resumed(s1, "testSkipSave", <<"downloads.testSkipSave">>))
            ELSE Suspend(s, EntersPipeline(s1, includeInfobar))

\* Variant of TestSkipSaveResolved: line 181 does not test `skipped`.
TestSkipSaveIgnoresSkip(s, result, includeInfobar) ==
    /\ s.pc = "testSkipSave"
    /\ CASE result = "throws" -> Settle(s, s, "failed", TRUE)
         [] result = "skipped" ->
              Suspend(s, EntersPipeline([s EXCEPT !.skipped = TRUE], includeInfobar))
         [] result = "saved" -> Suspend(s, EntersPipeline(s, includeInfobar))

\* line 177 resolves or throws; lines 178-181
TestSkipSaveResolved(s, result, includeInfobar) ==
    /\ s.pc = "testSkipSave"
    /\ CASE result = "throws" -> Settle(s, s, "failed", TRUE)
         [] result = "skipped" -> Settle(s, [s EXCEPT !.skipped = TRUE], "skipped", TRUE)
         [] result = "saved" -> Suspend(s, EntersPipeline(s, includeInfobar))

\* line 183 resolves (ok) or throws; line 185
IncludeScriptResolved(s, ok) ==
    /\ s.pc = "includeScript"
    /\ IF ~ok
       THEN Settle(s, s, "failed", TRUE)
       ELSE Suspend(s, Resumed(s, "process", <<"compression.process">>))

\* line 185 resolves (ok) or throws; lines 195-199
ProcessResolved(s, ok) ==
    /\ s.pc = "process"
    /\ IF ~ok
       THEN Settle(s, s, "failed", TRUE)
       ELSE IF s.saveToGDrive
       THEN Suspend(s, Resumed(s, "uploadPage", <<"downloads.uploadPage">>))
       ELSE Suspend(s, Resumed([s EXCEPT !.url = TRUE], "downloadPage",
                               <<"URL.createObjectURL", "downloads.downloadPage">>))

\* line 196 resolves (ok) or throws
UploadPageResolved(s, ok) ==
    /\ s.pc = "uploadPage"
    /\ Settle(s, s, IF ok THEN "success" ELSE "failed", TRUE)

\* line 199 resolves (ok) or throws
DownloadPageResolved(s, ok) ==
    /\ s.pc = "downloadPage"
    /\ Settle(s, s, IF ok THEN "success" ELSE "failed", TRUE)

(***************************************************************************)
(* The environment: ".save" messages, tab events, and the resolutions of   *)
(* the awaited collaborators, in any order.                                *)
(***************************************************************************)
\* sender.tab of a message: absent, or the tab the message names
Senders(message) == {NoTab, Tab(message.tabId, message.tabIndex)}

Next ==
    \/ \E message \in Messages(nmsg + 1) : \E senderTab \in Senders(message) :
         \E autoSaveUnload \in BOOLEAN : OnMessage(message, senderTab, autoSaveUnload)
    \/ \E tabId \in TabIds : OnTabUpdated(tabId)
    \/ \E tabId \in TabIds : OnTabRemoved(tabId)
    \/ \E tabId \in TabIds : OnTabDiscarded(tabId)
    \/ \E addedTabId \in TabIds : \E removedTabId \in TabIds \ {addedTabId} :
         OnTabReplaced(addedTabId, removedTabId)
    \/ \E s \in saves : \E result \in {"null", "throws", "options"} :
         GetOptionsResolved(s, result)
    \/ \E s \in saves : \E ok, g, i \in BOOLEAN : GetPageDataResolved(s, ok, g, i)
    \/ \E s \in saves : \E result \in {"throws", "skipped", "saved"} :
         \E i \in BOOLEAN : TestSkipSaveResolved(s, result, i)
    \/ \E s \in saves : \E ok \in BOOLEAN : IncludeScriptResolved(s, ok)
    \/ \E s \in saves : \E ok \in BOOLEAN : ProcessResolved(s, ok)
    \/ \E s \in saves : \E ok \in BOOLEAN : UploadPageResolved(s, ok)
    \/ \E s \in saves : \E ok \in BOOLEAN : DownloadPageResolved(s, ok)

Spec == Init /\ [][Next]_vars

(***************************************************************************)
(* Properties.                                                             *)
(***************************************************************************)
Count(seq, x) == Cardinality({k \in 1..Len(seq) : seq[k] = x})
Last(seq) == seq[Len(seq)]
IsPlain(message) == ~message.autoSaveDiscard /\ ~message.autoSaveRemove
\* the step that led to the current state settled a saveContent invocation
SettledNow == ev.op = "saveContent" /\ ev.fin # NoSave
\* the save that the invocation (message, tab) started
Started(message, tab, waiter) ==
    [msg |-> message, tab |-> tab, pc |-> "getOptions", saveToGDrive |-> FALSE,
     pageData |-> FALSE, skipped |-> FALSE, url |-> FALSE, trace |-> <<>>,
     waiter |-> waiter]

\* C1: onTabRemoved(i) on a save-request entry: with autoSaveRemove the entry
\* of i is removed and saveContent is invoked exactly once, with that entry
\* and its message.tab; without it saveContent is not invoked and the table
\* is unchanged.
C1_RemovedFlushesRemoveOnSave ==
    [][(ev'.op = "onTabRemoved" /\ IsMessage(pendingMessages[ev'.id])) =>
         LET i == ev'.id
             m == pendingMessages[i]
         IN  IF m.autoSaveRemove
             THEN /\ pendingMessages' = [pendingMessages EXCEPT ![i] = Absent]
                  /\ ev'.calls = <<Call(m, m.tab)>>
                  /\ m.tab # NoTab
                  /\ saves' = saves \cup {Started(m, m.tab, Waiter("onTabRemoved", i))}
                  /\ Started(m, m.tab, Waiter("onTabRemoved", i)) \notin saves
             ELSE /\ ev'.calls = <<>>
                  /\ pendingMessages' = pendingMessages
                  /\ saves' = saves]_vars

C1_Witness ==
    /\ ev.op = "onTabRemoved"
    /\ ev.prior = "message"
    /\ Len(ev.calls) = 1
    /\ ev.calls[1].msg.autoSaveRemove
    /\ pendingMessages[ev.id] = Absent
    /\ \E s \in saves : s.msg = ev.calls[1].msg /\ s.waiter = Waiter("onTabRemoved", ev.id)

\* C2: onTabDiscarded(id): a save-request entry is removed and flushed once
\* with its message.tab; with no entry or a closed-marker the event changes
\* no entry and invokes no saveContent.
C2_DiscardedIsNoOpWithoutSaveRequest ==
    ev.op = "onTabDiscarded" =>
        IF ev.prior = "message"
        THEN /\ Len(ev.calls) = 1
             /\ ev.calls[1].tab = ev.calls[1].msg.tab
             /\ pendingMessages[ev.id] = Absent
        ELSE ev.changed = {} /\ ev.calls = <<>>

\* C3: a saveContent invocation that ends in success, in a skip or in a
\* failure thrown by a stage of the try block has called ui.onEnd exactly
\* once, as its last call, and has revoked the object URL it created.
C3_SaveEndedOnceAndUrlReleased ==
    (SettledNow /\ ev.outcome \in {"success", "skipped", "failed"}) =>
        /\ Count(ev.fin.trace, "ui.onEnd") = 1
        /\ Last(ev.fin.trace) = "ui.onEnd"
        /\ Count(ev.fin.trace, "URL.revokeObjectURL")
             = Count(ev.fin.trace, "URL.createObjectURL")
        /\ ev.fin.url => Count(ev.fin.trace, "URL.revokeObjectURL") = 1

C3_Witness ==
    /\ SettledNow
    /\ ev.outcome = "failed"
    /\ ev.fin.pc = "downloadPage"
    /\ ev.fin.url
    /\ Count(ev.fin.trace, "URL.revokeObjectURL") = 1
    /\ Last(ev.fin.trace) = "ui.onEnd"

\* the last step handled a request with autoSaveRemove, without sender.tab,
\* that found no entry under its id
DroppedRequest(e) ==
    /\ e.op = "onMessage"
    /\ e.msg.autoSaveRemove
    /\ e.sender = NoTab
    /\ e.prior = "absent"

\* C4 as stated: such a request is stored as a pending save-request and no
\* save executes.
C4_StoredWithoutSession ==
    DroppedRequest(ev) =>
        /\ IsMessage(pendingMessages[ev.id])
        /\ pendingMessages[ev.id].id = ev.msg.id
        /\ ev.calls = <<>>

\* C4 amended: such a request is not stored and starts no save (with
\* autoSaveUnload, saveContent is called without a tab and throws at once);
\* onTabRemoved for the same id right after it records a closed-marker and
\* invokes no saveContent.
C4_DroppedWithoutSession ==
    [][/\ DroppedRequest(ev') =>
            /\ pendingMessages' = pendingMessages
            /\ saves' = saves
            /\ ev'.calls = IF ev'.unload THEN <<Call(ev'.msg, NoTab)>> ELSE <<>>
       /\ (DroppedRequest(ev) /\ ev'.op = "onTabRemoved" /\ ev'.id = ev.id) =>
            /\ pendingMessages' = [pendingMessages EXCEPT ![ev.id] = Removed]
            /\ ev'.calls = <<>>
            /\ saves' = saves]_vars

C4_Witness ==
    /\ DroppedRequest(ev)
    /\ ~ev.unload
    /\ ev.calls = <<>>
    /\ ev.changed = {}
    /\ pendingMessages[ev.id] = Absent
    /\ flushCount[ev.msg.id] = 0
    /\ saves = {}

\* C5: a registered save-request (message.tab set at line 57) is passed to
\* saveContent at most once: when it is passed, it is for the first time and
\* no entry of the table holds it any more, in particular not the entry it
\* was taken from; and no entry holds a message that was already passed.
C5_FlushedAtMostOnce ==
    /\ \A k \in 1..Len(ev.calls) :
         LET m == ev.calls[k].msg IN
         (IsMessage(m) /\ m.tab # NoTab) =>
            /\ flushCount[m.id] = 1
            /\ pendingMessages[ev.id] = Absent
            /\ \A t \in TabIds :
                 ~(IsMessage(pendingMessages[t]) /\ pendingMessages[t].id = m.id)
    /\ \A t \in TabIds :
         IsMessage(pendingMessages[t]) => flushCount[pendingMessages[t].id] = 0

C5_Witness ==
    /\ ev.op = "onTabDiscarded"
    /\ Len(ev.calls) = 1
    /\ IsMessage(ev.calls[1].msg)
    /\ ev.calls[1].msg.tab # NoTab
    /\ ev.calls[1].msg.tab.id # ev.id
    /\ flushCount[ev.calls[1].msg.id] = 1
    /\ pendingMessages[ev.id] = Absent

\* C6: when the flush started by onTabRemoved(new) for an intent stored
\* under old and moved to new by onTabReplaced has finished, neither old nor
\* new has an entry and replacedTabIds has no entry for old.
C6_RedirectedFlushLeavesNothing ==
    (SettledNow /\ ev.fin.waiter.h = "onTabRemoved" /\ ev.fin.waiter.id # ev.id) =>
        /\ pendingMessages[ev.id] = Absent
        /\ pendingMessages[ev.fin.waiter.id] = Absent
        /\ replacedTabIds[ev.id] = Undefined

\* C7: no tab id that is the target of an entry of replacedTabIds is the
\* source of another entry.
C7_RedirectsAtMostOneHop ==
    \A t \in TabIds :
        replacedTabIds[t] # Undefined => replacedTabIds[replacedTabIds[t]] = Undefined

\* C8: onTabUpdated(i) leaves no entry for i, whatever was there, changes no
\* other entry and invokes no saveContent.
C8_UpdatedClearsEntry ==
    [][ev'.op = "onTabUpdated" =>
         /\ pendingMessages' = [pendingMessages EXCEPT ![ev'.id] = Absent]
         /\ ev'.calls = <<>>
         /\ saves' = saves
         /\ flushCount' = flushCount]_vars

C8_Witness ==
    /\ ev.op = "onTabUpdated"
    /\ ev.prior = "message"
    /\ ev.changed = {ev.id}
    /\ pendingMessages[ev.id] = Absent
    /\ \E t \in TabIds \ {ev.id} : IsMessage(pendingMessages[t])

\* C9 as stated: a plain request with sender.tab invokes saveContent once with
\* sender.tab, and the table has no entry for sender.tab.id when that save
\* starts and when the handler returns (the save it awaits has returned).
C9_PlainSaveLeavesNoEntry ==
    /\ (ev.op = "onMessage" /\ IsPlain(ev.msg) /\ ev.sender # NoTab) =>
          /\ ev.calls = <<Call(ev.msg, ev.sender)>>
          /\ pendingMessages[ev.sender.id] = Absent
    /\ (SettledNow /\ ev.fin.waiter.h = "onMessage:69"
          /\ ev.outcome \in {"aborted", "success", "skipped"}) =>
          pendingMessages[ev.fin.waiter.id] = Absent

\* C9 amended: a plain request with sender.tab invokes saveContent once with
\* sender.tab, and the table has no entry for sender.tab.id when that save
\* starts; the handler writes no entry afterwards: when it returns the table
\* is what the handlers that ran during the save left.
C9_PlainSaveFlushesAtOnce ==
    [][/\ (ev'.op = "onMessage" /\ IsPlain(ev'.msg) /\ ev'.sender # NoTab) =>
            /\ ev'.calls = <<Call(ev'.msg, ev'.sender)>>
            /\ pendingMessages' = [pendingMessages EXCEPT ![ev'.sender.id] = Absent]
            /\ saves' = saves \cup
                  {Started(ev'.msg, ev'.sender, Waiter("onMessage:69", ev'.sender.id))}
       /\ (ev'.op = "saveContent" /\ ev'.fin # NoSave
             /\ ev'.fin.waiter.h = "onMessage:69") =>
            /\ pendingMessages' = pendingMessages
            /\ ev'.calls = <<>>]_vars

C9_Witness ==
    /\ ev.op = "onMessage"
    /\ IsPlain(ev.msg)
    /\ ev.sender # NoTab
    /\ ev.prior = "message"
    /\ ev.changed = {ev.sender.id}
    /\ pendingMessages[ev.sender.id] = Absent
    /\ Started(ev.msg, ev.sender, Waiter("onMessage:69", ev.sender.id)) \in saves

\* the collaborators of lines 183-199
PipelineStages ==
    {"infobar.includeScript", "compression.process", "downloads.uploadPage",
     "URL.createObjectURL", "downloads.downloadPage"}

\* C10: once downloads.testSkipSave has returned skipped = true the invocation
\* calls none of the stages of lines 183-199: it is not suspended at any of
\* them, and it settles having called business.onSaveEnd (when message.taskId
\* is set) and ui.onEnd.
C10_SkippedRunsNoStage ==
    /\ \A s \in saves : ~s.skipped
    /\ (SettledNow /\ ev.fin.skipped) =>
          /\ ev.outcome = "skipped"
          /\ \A k \in 1..Len(ev.fin.trace) : ev.fin.trace[k] \notin PipelineStages
          /\ Count(ev.fin.trace, "ui.onEnd") = 1
          /\ Last(ev.fin.trace) = "ui.onEnd"
          /\ ev.fin.taskId # 0 => Count(ev.fin.trace, "business.onSaveEnd") = 1

C10_Witness ==
    /\ SettledNow
    /\ ev.fin.skipped
    /\ ev.fin.taskId # 0
    /\ ev.fin.trace = <<"ui.onStart", "getPageData", "downloads.testSkipSave",
                        "business.onSaveEnd", "ui.onEnd">>

\* the calls of the finally block (lines 203-212)
CleanupCalls == {"business.onSaveEnd", "tabs.remove", "URL.revokeObjectURL", "ui.onEnd"}

\* C11: a saveContent invocation that called ui.onStart settles having made
\* the calls of its finally block once each and in this order: first
\* business.onSaveEnd when message.taskId is set, or else tabs.remove exactly
\* when options.autoSaveDiscard and options.autoClose are set (never both);
\* then URL.revokeObjectURL exactly when an object URL was created; and last
\* ui.onEnd.
C11_CleanupOnceInOrder ==
    (SettledNow /\ Count(ev.fin.trace, "ui.onStart") > 0) =>
        LET first == IF ev.fin.taskId # 0 THEN <<"business.onSaveEnd">>
                     ELSE IF ev.fin.autoSaveDiscard /\ ev.fin.autoClose
                     THEN <<"tabs.remove">>
                     ELSE <<>>
            release == IF ev.fin.url THEN <<"URL.revokeObjectURL">> ELSE <<>>
        IN  /\ ev.fin.cleanup = first \o release \o <<"ui.onEnd">>
            /\ \A c \in CleanupCalls :
                 Count(ev.fin.trace, c) = Count(ev.fin.cleanup, c)
            /\ Count(ev.fin.trace, "ui.onEnd") = 1
            /\ Count(ev.fin.trace, "business.onSaveEnd")
                 + Count(ev.fin.trace, "tabs.remove") <= 1

C11_Witness ==
    /\ SettledNow
    /\ ev.outcome = "success"
    /\ ev.fin.cleanup = <<"tabs.remove", "URL.revokeObjectURL", "ui.onEnd">>

\* C12: when the finally block closes the tab of an intent flushed from the
\* table (message.taskId unset, options.autoSaveDiscard and options.autoClose
\* set), the id passed to tabs.remove is the id the intent was last stored
\* under, wherever onTabReplaced moved it, and replacedTabIds has no entry for
\* the tab id of the save afterwards.
C12_ClosesCurrentIdentity ==
    (SettledNow /\ ev.fin.closes
       /\ ev.fin.waiter.h \in {"onTabRemoved", "onTabDiscarded"}) =>
        /\ ev.closed = ev.fin.waiter.id
        /\ replacedTabIds[ev.id] = Undefined

\* C13: a request with autoSaveDiscard or autoSaveRemove and without
\* sender.tab: when it carries autoSaveRemove and finds a closed-marker under
\* message.tabId, the marker is deleted and saveContent is invoked with the
\* request and the tab {id: message.tabId, index: message.tabIndex}; in every
\* other case no save is started, no saveContent is invoked with such a tab,
\* and (unless autoSaveUnload makes line 64 run) the table is unchanged.
C13_ClosedMarkerFlushedAtOnce ==
    [][(ev'.op = "onMessage" /\ ev'.sender = NoTab /\ IsDeferred(ev'.msg)) =>
         LET m == ev'.msg
             tab == Tab(m.tabId, m.tabIndex)
         IN  IF m.autoSaveRemove /\ IsRemoved(pendingMessages[m.tabId])
             THEN /\ pendingMessages' = [pendingMessages EXCEPT ![m.tabId] = Absent]
                  /\ ev'.calls = <<Call(m, tab)>>
                  /\ saves' = saves \cup {Started(m, tab, Waiter("onMessage:61", m.tabId))}
                  /\ flushCount'[m.id] = 1
             ELSE /\ saves' = saves
                  /\ \A k \in 1..Len(ev'.calls) : ev'.calls[k].tab = NoTab
                  /\ ~ev'.unload => pendingMessages' = pendingMessages /\ ev'.calls = <<>>]_vars

C13_Witness ==
    /\ ev.op = "onMessage"
    /\ ev.sender = NoTab
    /\ ev.msg.autoSaveRemove
    /\ ev.prior = "removed"
    /\ pendingMessages[ev.id] = Absent
    /\ ev.calls = <<Call(ev.msg, Tab(ev.msg.tabId, ev.msg.tabIndex))>>
    /\ \E s \in saves : s.msg = ev.msg /\ s.tab.id = ev.msg.tabId
                          /\ s.waiter = Waiter("onMessage:61", ev.id)

\* C14: a request with autoSaveDiscard or autoSaveRemove, without
\* autoSaveUnload and with sender.tab is only stored: the entry of
\* sender.tab.id becomes this request (with message.tab = sender.tab) whatever
\* was there, no other entry and no redirect changes, and no saveContent is
\* invoked; a stored request is passed to saveContent only by onTabRemoved or
\* onTabDiscarded for the id it is stored under.
C14_DeferredIsOnlyStored ==
    [][/\ (ev'.op = "onMessage" /\ IsDeferred(ev'.msg) /\ ev'.sender # NoTab
             /\ ~ev'.unload) =>
            /\ pendingMessages' = [pendingMessages EXCEPT
                    ![ev'.sender.id] = [ev'.msg EXCEPT !.tab = ev'.sender]]
            /\ ev'.calls = <<>>
            /\ saves' = saves
            /\ flushCount' = flushCount
            /\ replacedTabIds' = replacedTabIds
       /\ \A t \in TabIds :
            (IsMessage(pendingMessages[t])
               /\ flushCount'[pendingMessages[t].id] # flushCount[pendingMessages[t].id]) =>
                /\ ev'.op \in {"onTabRemoved", "onTabDiscarded"}
                /\ ev'.id = t]_vars

C14_Witness ==
    /\ ev.op = "onMessage"
    /\ IsDeferred(ev.msg)
    /\ ev.sender # NoTab
    /\ ~ev.unload
    /\ ev.prior = "message"
    /\ ev.changed = {ev.sender.id}
    /\ pendingMessages[ev.sender.id] = [ev.msg EXCEPT !.tab = ev.sender]
    /\ ev.calls = <<>>
    /\ flushCount[ev.msg.id] = 0

\* C15: a handler writes the table only before its first await: the step in
\* which an awaited saveContent settles, and the handler that awaited it
\* continues, changes no entry of pendingMessages.
C15_NoRegistryWriteAfterAwait ==
    [][ev'.op = "saveContent" =>
         /\ pendingMessages' = pendingMessages
         /\ ev'.changed = {}]_vars

\* C16: a saveContent invocation whose options resolve to null returns
\* without having called ui.onStart, a stage of the pipeline or a call of the
\* finally block, closes no tab, and writes neither table (the entry that
\* changes when autoSaveUnload is read is deleted by line 64 of the handler
\* that resumes, not by saveContent).
C16_NullOptionsAbortSilently ==
    [][(ev'.op = "saveContent" /\ ev'.outcome = "aborted") =>
         /\ ev'.fin # NoSave
         /\ ev'.fin.trace = <<>>
         /\ ev'.fin.cleanup = <<>>
         /\ ev'.fin.taskId = 0 /\ ~ev'.fin.closes
         /\ ev'.closed = Undefined
         /\ replacedTabIds' = replacedTabIds
         /\ ~ev'.unload => pendingMessages' = pendingMessages /\ ev'.calls = <<>>
         /\ saves' = saves \ {s \in saves : s.tab.id = ev'.id /\ s.msg.id = ev'.id2}]_vars

C16_Witness ==
    /\ SettledNow
    /\ ev.outcome = "aborted"
    /\ ev.fin.pc = "getOptions"
    /\ ev.fin.trace = <<>>
    /\ ev.fin.waiter.h = "onTabRemoved"
    /\ replacedTabIds[ev.id] = ev.fin.waiter.id
    /\ saves = {}

(***************************************************************************)
(* isEnabled (lines 126-134), on its own: it reads neither table.  A JS    *)
(* flag is "undefined", "false" or "true"; an object that may be missing   *)
(* is NoObject or a record of kind "object".  allTabsData is given by its  *)
(* properties autoSaveAll and autoSaveUnpinned and by own, the value of    *)
(* allTabsData[tab.id]; rule is what config.getRule(tab.url) resolves to.  *)
(***************************************************************************)
DISABLED_PROFILE_NAME == "__Disabled_Settings__"
Profiles == {DISABLED_PROFILE_NAME, "__Default_Settings__"}
Flags == {"undefined", "false", "true"}
NoObject == [kind |-> "undefined"]
PinnableTabs == {[kind |-> "object", id |-> t, pinned |-> p] : t \in TabIds, p \in BOOLEAN}
TabData == {NoObject} \cup {[kind |-> "object", autoSave |-> f] : f \in Flags}
Rules == {NoObject} \cup {[kind |-> "object", autoSaveProfile |-> p] : p \in Profiles}
AllTabsData == [autoSaveAll : Flags, autoSaveUnpinned : Flags, own : TabData]

\* JS ToBoolean, ||, && and the boolean results of ! and !=
ToBoolean(v) == v = "true"
FromBoolean(b) == IF b THEN "true" ELSE "false"
JsOr(a, b) == IF ToBoolean(a) THEN a ELSE b
JsAnd(a, b) == IF ToBoolean(a) THEN b ELSE a

\* Variant of IsEnabled: `!tab.pinned` is missing from line 130.
IsEnabledIgnoresPinned(tab, allTabsData, rule) ==
    IF tab = NoObject THEN "undefined"
    ELSE JsAnd(FromBoolean(ToBoolean(
                   JsOr(JsOr(allTabsData.autoSaveAll, allTabsData.autoSaveUnpinned),
                        IF allTabsData.own = NoObject THEN "undefined"
                        ELSE allTabsData.own.autoSave))),
               IF rule = NoObject THEN "true"
               ELSE FromBoolean(rule.autoSaveProfile # DISABLED_PROFILE_NAME))

\* lines 127-133; without a tab the function returns undefined
IsEnabled(tab, allTabsData, rule) ==
    IF tab = NoObject THEN "undefined"
    ELSE JsAnd(FromBoolean(ToBoolean(
                   JsOr(JsOr(allTabsData.autoSaveAll,
                             JsAnd(allTabsData.autoSaveUnpinned, FromBoolean(~tab.pinned))),
                        IF allTabsData.own = NoObject THEN "undefined"
                        ELSE allTabsData.own.autoSave))),
               IF rule = NoObject THEN "true"
               ELSE FromBoolean(rule.autoSaveProfile # DISABLED_PROFILE_NAME))

\* One invocation of isEnabled: its argument, what the two awaited reads
\* resolved to, and the value returned.
EnabledCall(pc, tab, allTabsData, rule, result) ==
    [op |-> "isEnabled", pc |-> pc, tab |-> tab, allTabsData |-> allTabsData,
     rule |-> rule, result |-> result]

NoTabsData == [autoSaveAll |-> "undefined", autoSaveUnpinned |-> "undefined", own |-> NoObject]

InitIsEnabled ==
    /\ pendingMessages = [t \in TabIds |-> Absent]
    /\ replacedTabIds = [t \in TabIds |-> Undefined]
    /\ saves = {}
    /\ nmsg = 0
    /\ inFlightLimit = MaxSaves
    /\ flushCount = [i \in MsgIds |-> 0]
    /\ ev = EnabledCall("idle", NoObject, NoTabsData, NoObject, "undefined")

\* line 127: without a tab the function returns at once, with one it
\* suspends at the await of line 128
IsEnabledCalled(tab) ==
    /\ ev.pc \in {"idle", "returned"}
    /\ ev' = IF tab = NoObject
             THEN EnabledCall("returned", tab, NoTabsData, NoObject,
                              IsEnabled(tab, NoTabsData, NoObject))
             ELSE EnabledCall("await", tab, NoTabsData, NoObject, "undefined")
    /\ UNCHANGED <<pendingMessages, replacedTabIds, saves, nmsg, flushCount, inFlightLimit>>

\* line 128 resolves; lines 129-132
IsEnabledResolved(allTabsData, rule) ==
    /\ ev.pc = "await"
    /\ ev' = EnabledCall("returned", ev.tab, allTabsData, rule,
                         IsEnabled(ev.tab, allTabsData, rule))
    /\ UNCHANGED <<pendingMessages, replacedTabIds, saves, nmsg, flushCount, inFlightLimit>>

NextIsEnabled ==
    \/ \E tab \in PinnableTabs \cup {NoObject} : IsEnabledCalled(tab)
    \/ \E allTabsData \in AllTabsData : \E rule \in Rules :
         IsEnabledResolved(allTabsData, rule)

SpecIsEnabled == InitIsEnabled /\ [][NextIsEnabled]_vars

\* C17: for a present tab isEnabled returns a boolean, and it returns true
\* exactly when (autoSaveAll, or autoSaveUnpinned and the tab is not pinned,
\* or the tab's own autoSave flag) and not (a rule exists and its
\* autoSaveProfile is DISABLED_PROFILE_NAME); flags that are missing count as
\* false and a missing rule as no override.
C17_EligibleExactlyWhen ==
    (ev.pc = "returned" /\ ev.tab # NoObject) =>
        LET a == ev.allTabsData
            optedIn == \/ a.autoSaveAll = "true"
                       \/ (a.autoSaveUnpinned = "true" /\ ~ev.tab.pinned)
                       \/ (a.own # NoObject /\ a.own.autoSave = "true")
            disabled == /\ ev.rule # NoObject
                        /\ ev.rule.autoSaveProfile = DISABLED_PROFILE_NAME
        IN  /\ ev.result \in {"true", "false"}
            /\ ev.result = "true" <=> (optedIn /\ ~disabled)

C17_Witness ==
    /\ ev.pc = "returned"
    /\ ev.tab # NoObject
    /\ ev.tab.pinned
    /\ ev.allTabsData.autoSaveAll = "false"
    /\ ev.allTabsData.autoSaveUnpinned = "true"
    /\ ev.allTabsData.own = NoObject
    /\ ev.rule = NoObject
    /\ ev.result = "false"

(***************************************************************************)
(* Overlapping saves: the same handlers and stages, with up to MaxOverlap  *)
(* saveContent invocations suspended at once.                              *)
(***************************************************************************)
InitOverlap ==
    /\ pendingMessages = [t \in TabIds |-> Absent]
    /\ replacedTabIds = [t \in TabIds |-> Undefined]
    /\ saves = {}
    /\ nmsg = 0
    /\ inFlightLimit = MaxOverlap
    /\ flushCount = [i \in MsgIds |-> 0]
    /\ ev = Event("init", Undefined, Undefined, Absent, NoTab, FALSE, "absent", {}, <<>>,
                  NoSave, "none", Undefined)

\* The handlers with all their inputs; of the collaborators, the outcomes
\* up to the first one awaited inside the try block.
NextOverlap ==
    \/ \E message \in Messages(nmsg + 1) : \E senderTab \in Senders(message) :
         \E autoSaveUnload \in BOOLEAN : OnMessage(message, senderTab, autoSaveUnload)
    \/ \E tabId \in TabIds : OnTabUpdated(tabId)
    \/ \E tabId \in TabIds : OnTabRemoved(tabId)
    \/ \E tabId \in TabIds : OnTabDiscarded(tabId)
    \/ \E addedTabId \in TabIds : \E removedTabId \in TabIds \ {addedTabId} :
         OnTabReplaced(addedTabId, removedTabId)
    \/ \E s \in saves : \E result \in {"null", "throws", "options"} :
         GetOptionsResolved(s, result)
    \/ \E s \in saves : GetPageDataResolved(s, FALSE, FALSE, FALSE)

SpecOverlap == InitOverlap /\ [][NextOverlap]_vars

\* ui.onStart was called and ui.onEnd was not: the invocation is suspended
\* inside the try block
Active(s) == Count(s.trace, "ui.onStart") > 0

\* C18: no two saveContent invocations for the same tab id are between
\* their ui.onStart and their ui.onEnd at the same time.
C18_OneActiveSavePerTab ==
    \A s1, s2 \in saves :
        (s1 # s2 /\ s1.tab.id = s2.tab.id) => ~(Active(s1) /\ Active(s2))

\* C18 amended: saves are not serialized per tab id, but every request
\* starts at most one of them: a saveContent invocation that gets past line
\* 149 is the first invocation for its message, the invocations suspended at
\* the same time are for different messages, and none has called ui.onStart
\* twice.
C18_OneSavePerRequest ==
    [][/\ \A s \in saves' \ saves :
            s.pc = "getOptions" =>
                flushCount[s.msg.id] = 0 /\ flushCount'[s.msg.id] = 1
       /\ \A s1, s2 \in saves' : s1.msg.id = s2.msg.id => s1 = s2
       /\ \A s \in saves' : Count(s.trace, "ui.onStart") <= 1]_vars

C18_Witness ==
    \E s1, s2 \in saves :
        /\ s1.tab.id = s2.tab.id
        /\ s1.msg.id # s2.msg.id
        /\ Active(s1) /\ Active(s2)
        /\ s1.waiter.h = "onTabDiscarded"
        /\ s2.waiter.h = "onTabRemoved"

\* C19: handling one ".save" message invokes saveContent at most once, and
\* never without a tab: no call made by onMessage, before or after its
\* await, has an undefined tab, and no message is passed to saveContent
\* twice.
C19_OneSaveWithTabPerRequest ==
    /\ ev.op \in {"onMessage", "saveContent"} =>
          \A k \in 1..Len(ev.calls) : ev.calls[k].tab # NoTab
    /\ \A i \in MsgIds : flushCount[i] <= 1

\* the last step handled a save request that leaves a closed-marker alone:
\* one without sender.tab, without autoSaveRemove and without autoSaveUnload
\* (line 59 is false, lines 63-66 and 68 are not executed)
KeepsMarker(e) ==
    /\ e.op = "onMessage"
    /\ e.sender = NoTab
    /\ e.msg.autoSaveDiscard /\ ~e.msg.autoSaveRemove
    /\ ~e.unload

\* C20 as stated: a closed-marker appears under an id only by onTabRemoved
\* for that id, and is not there any more once onTabUpdated or a save request
\* for that id has been handled.
C20_MarkerOnlyWhereClosed ==
    [][\A t \in TabIds :
         /\ (pendingMessages'[t] = Removed /\ pendingMessages[t] # Removed) =>
               ev'.op = "onTabRemoved" /\ ev'.id = t
         /\ (ev'.op \in {"onTabUpdated", "onMessage"} /\ ev'.id = t) =>
               pendingMessages'[t] # Removed]_vars

\* C20 amended: a closed-marker appears under an id only by onTabRemoved for
\* that id, or by onTabReplaced moving it there from the id it replaces; and
\* it is not there any more once onTabUpdated for that id, or a save request
\* for that id other than one without sender.tab that carries autoSaveDiscard
\* alone, has been handled.
C20_MarkerWhereClosedOrMoved ==
    [][\A t \in TabIds :
         /\ (pendingMessages'[t] = Removed /\ pendingMessages[t] # Removed) =>
               \/ ev'.op = "onTabRemoved" /\ ev'.id = t /\ pendingMessages[t] = Absent
               \/ /\ ev'.op = "onTabReplaced" /\ ev'.id = t
                  /\ pendingMessages[ev'.id2] = Removed
                  /\ pendingMessages'[ev'.id2] = Absent
                  /\ pendingMessages[t] = Absent
         /\ (ev'.op = "onTabUpdated" /\ ev'.id = t) => pendingMessages'[t] # Removed
         /\ (ev'.op = "onMessage" /\ ev'.id = t /\ ~KeepsMarker(ev')) =>
               pendingMessages'[t] # Removed]_vars

C20_Witness ==
    /\ ev.op = "onTabReplaced"
    /\ ev.changed = {ev.id, ev.id2}
    /\ pendingMessages[ev.id] = Removed
    /\ pendingMessages[ev.id2] = Absent
    /\ replacedTabIds[ev.id2] = ev.id
====
